---- MODULE Spec2Model ----
(***************************************************************************)
(* Plugin lifecycle orchestrator of package plugin (setup.go, plugin.go):  *)
(* Config.SetupClosables loads one descriptor per configured (type, name)  *)
(* pair, sets the plugins up in dependency order under a timeout, notifies *)
(* the FinishNotifiers and returns a function closing the Closers in       *)
(* reverse order.                                                          *)
(***************************************************************************)
EXTENDS Integers, Sequences, FiniteSets, TLC

\* ------------------------------------------------------------------ bounds
\* The values the program may have given the package variable MaxPluginSize
\* (1000 unless assigned) before the run: small, so that the capacity check of
\* loadPlugins is reachable.
PluginSizes == {2, 3}
\* Total number of keys over all DependsOn and FlexDependsOn lists.
MaxDepEntries == 2
\* Number of times the caller invokes the returned close function.
MaxCloseCalls == 2

\* ------------------------------------------------- configuration universe
\* Plugin types and names a configuration may use.  ("a", "b-c") and
\* ("a-b", "c") are different map entries of a Config.
Types == {"a", "a-b"}
Names == {"c", "b-c"}
Universe == [typ : Types, name : Names]

\* pluginInfo.key
key(p) == p.typ \o "-" \o p.name

\* The keys a DependsOn / FlexDependsOn list may contain.
DepKeys == {key(p) : p \in Universe}

\* ------------------------------------------------------------------ errors
NoErr == [kind |-> "nil", arg |-> ""]
\* fmt.Errorf("plugin %s:%s no registered or imported, do not configure")
LookupErr(typ, name) == [kind |-> "lookup", arg |-> typ \o ":" \o name]
\* fmt.Errorf("plugin number exceed max limit:%d", len(plugins))
CapacityErr == [kind |-> "capacity", arg |-> ""]
\* errors.New("plugin not allowed to depend on itself")
SelfErr == [kind |-> "self", arg |-> ""]
\* fmt.Errorf("depends plugin %s not exists", name)
MissingErr(name) == [kind |-> "missing", arg |-> name]
\* fmt.Errorf("setup plugin %s timeout", p.key())
TimeoutErr(p) == [kind |-> "timeout", arg |-> key(p)]
\* The error of Setup passed on without the plugin's key.
SetupErrBare(p) == [kind |-> "setup", arg |-> ""]
\* fmt.Errorf("setup plugin %s error: %v", p.key(), err)
SetupErr(p) == [kind |-> "setup", arg |-> key(p)]
\* fmt.Errorf("cycle depends, not plugin is setup")
CycleErr == [kind |-> "cycle", arg |-> ""]
\* The error value a plugin's own OnFinish or Close returned, passed on
\* unwrapped; arg identifies the plugin that produced it.
PluginErr(op, p) == [kind |-> op, arg |-> p.typ \o ":" \o p.name]

\* ------------------------------------------------------- factory registry
\* A Factory with its optional capabilities.  deps / flex are the lists
\* DependsOn() / FlexDependsOn() return; a factory that does not implement
\* Depender (FlexDepender) is the one with the empty list, for which
\* checkDependence answers (false, nil) as well.  closer / finisher tell
\* whether the factory implements Closer / FinishNotifier.
NilFactory ==
    [nil |-> TRUE, deps |-> <<>>, flex |-> <<>>, closer |-> FALSE, finisher |-> FALSE]

\* Get(typ, name): plugins[typ][name], nil when nothing is registered.
Get(reg, typ, name) == reg[[typ |-> typ, name |-> name]]

VARIABLES
    MaxPluginSize, \* package variable MaxPluginSize
    c,           \* Config: the configured (type, name) pairs
    registry,    \* package variable plugins: (type, name) -> Factory
    pc,          \* position of SetupClosables
    queued,      \* the working set as loadPlugins returned it
    plugins,     \* the channel of pending descriptors (working set)
    status,      \* map key -> bool
    result,      \* completed-order list of setupPlugins
    closes,      \* close list of setupPlugins (descriptors of the Closers)
    num,         \* size of the working set at the start of the pass
    i,           \* descriptors examined in the current pass
    cur,         \* descriptor whose Setup call is racing the timer
    fi,          \* index of the next descriptor onFinish visits
    close,       \* returned close function (nil, or the captured close list)
    err,         \* returned error
    abandoned,   \* Setup goroutines abandoned by a timeout: "running", or the
                 \* outcome ("nil" | "err") the goroutine finished with
    ci,          \* index of the next close in the running close() call
    passes,      \* log: number of passes of setupPlugins started
    setupCalls,  \* log: descriptors whose Setup was invoked, in order
    finishCalls, \* log: descriptors whose OnFinish was invoked, in order
    closeCalls,  \* number of invocations of the returned function so far
    closeLog,    \* log: the Close calls of the latest invocation, in order
    closeRet,    \* the latest invocation: "none" | "run" | "nil" | "err"
    closeErr     \* the error the latest invocation returned, NoErr if none

\* The state of the other packages of the repository: the factory registry
\* of plugin/plugin.go as its goroutines see it, the logger table of
\* log/logger_factory.go and the singleton of database/db.go.
VARIABLES
    regTable,    \* plugin.go plugins: type -> inner map (0: no entry)
    regHeap,     \* the inner maps made so far: name -> Factory
    regG,        \* the goroutines calling Register / Get
    regLog,      \* the Register calls in the order they started
    regOverlap,  \* some Register call ran while another call was in flight
    regFatal,    \* the runtime threw on a concurrent map access
    loggers,     \* logger_factory.go loggers: name -> Logger
    DefaultLogger, \* logger_factory.go DefaultLogger
    logCall,     \* the last log.Register call and how it ended
    once,        \* db.go once
    clientInstance, \* db.go clientInstance
    initErr,     \* db.go initErr
    dbRuns,      \* the results of the newClient runs, in order
    dbG,         \* the goroutines calling database.Init
    sp,          \* setup.go setup: the receiver p of one call
    smain,       \* position of that call of setup
    sgo,         \* position of the goroutine it starts
    serr,        \* its variable err
    ch,          \* its channel ch
    timer,       \* the timer of time.After(SetupTimeout)
    sret,        \* what the call returned
    first        \* which of close(ch) and the timer came first

setupVars == <<MaxPluginSize, c, registry, pc, queued, plugins, status, result, closes,
               num, i, cur, fi, close, err, abandoned, ci, passes, setupCalls,
               finishCalls, closeCalls, closeLog, closeRet, closeErr>>
regVars == <<regTable, regHeap, regG, regLog, regOverlap, regFatal>>
logVars == <<loggers, DefaultLogger, logCall>>
dbVars == <<once, clientInstance, initErr, dbRuns, dbG>>
raceVars == <<sp, smain, sgo, serr, ch, timer, sret, first>>
otherVars == <<regVars, logVars, dbVars, raceVars>>
vars == <<setupVars, otherVars>>

\* ------------------------------------------------------ dependency resolver
\* The configuration leaf (yaml.Node) of the Config at c[typ][name].
Leaf(typ, name) == [typ |-> typ, name |-> name]

\* pluginInfo whose cfg is the leaf of the first name of the type.
pluginInfoFirstLeaf(reg, typ, name) ==
    [factory |-> Get(reg, typ, name), typ |-> typ, name |-> name,
     cfg |-> Leaf(typ, "b-c")]

\* pluginInfo: the descriptor loadPlugins builds for one configured pair.
pluginInfo(reg, typ, name) ==
    [factory |-> Get(reg, typ, name), typ |-> typ, name |-> name,
     cfg |-> Leaf(typ, name)]

\* The zero pluginInfo: no Setup call is racing the timer.
NoPlugin == [factory |-> NilFactory, typ |-> "", name |-> "", cfg |-> Leaf("", "")]

\* The arguments of p.factory.Setup(p.name, &YamlNodeDecoder{Node: &p.cfg}).
SetupArgs(p) == [name |-> p.name, node |-> p.cfg]

Wait == [wait |-> TRUE, err |-> NoErr]
Ready == [wait |-> FALSE, err |-> NoErr]
Fail(e) == [wait |-> FALSE, err |-> e]

\* checkFrom without the comparison of name with p.key().
RECURSIVE checkFromNoSelf(_, _, _, _, _)
checkFromNoSelf(p, st, dependences, flexible, k) ==
    IF k > Len(dependences) THEN Ready
    ELSE LET name == dependences[k] IN
         IF name \notin DOMAIN st
         THEN IF flexible
              THEN checkFromNoSelf(p, st, dependences, flexible, k + 1)
              ELSE Fail(MissingErr(name))
         ELSE IF ~st[name] THEN Wait
              ELSE checkFromNoSelf(p, st, dependences, flexible, k + 1)

\* checkFrom without "if flexible { continue }": a key without a status entry
\* is an error in a FlexDependsOn list too.
RECURSIVE checkFromFlexMissing(_, _, _, _, _)
checkFromFlexMissing(p, st, dependences, flexible, k) ==
    IF k > Len(dependences) THEN Ready
    ELSE LET name == dependences[k] IN
         IF name = key(p) THEN Fail(SelfErr)
         ELSE IF name \notin DOMAIN st THEN Fail(MissingErr(name))
         ELSE IF ~st[name] THEN Wait
              ELSE checkFromFlexMissing(p, st, dependences, flexible, k + 1)

\* checkFrom that skips a key without a status entry in a DependsOn list too.
RECURSIVE checkFromSkipMissing(_, _, _, _, _)
checkFromSkipMissing(p, st, dependences, flexible, k) ==
    IF k > Len(dependences) THEN Ready
    ELSE LET name == dependences[k] IN
         IF name = key(p) THEN Fail(SelfErr)
         ELSE IF name \notin DOMAIN st
              THEN checkFromSkipMissing(p, st, dependences, flexible, k + 1)
              ELSE IF ~st[name] THEN Wait
                   ELSE checkFromSkipMissing(p, st, dependences, flexible, k + 1)

\* checkFrom that validates the whole list first: a key that is the plugin's
\* own, or a missing strong key, is an error wherever it stands in the list.
checkFromErrorsFirst(p, st, dependences, flexible, k) ==
    LET rest == {j \in k..Len(dependences) : TRUE}
        missing == {j \in rest : dependences[j] \notin DOMAIN st}
    IN  IF \E j \in rest : dependences[j] = key(p) THEN Fail(SelfErr)
        ELSE IF ~flexible /\ missing # {}
        THEN Fail(MissingErr(dependences[CHOOSE j \in missing : \A o \in missing : j <= o]))
        ELSE IF \E j \in rest \ missing : ~st[dependences[j]] THEN Wait
        ELSE Ready

\* pluginInfo.checkDependence, from the k-th key of dependences on.
RECURSIVE checkFrom(_, _, _, _, _)
checkFrom(p, st, dependences, flexible, k) ==
    IF k > Len(dependences) THEN Ready
    ELSE LET name == dependences[k] IN
         IF name = key(p) THEN Fail(SelfErr)
         ELSE IF name \notin DOMAIN st
              THEN IF flexible
                   THEN checkFrom(p, st, dependences, flexible, k + 1)
                   ELSE Fail(MissingErr(name))
              ELSE IF ~st[name] THEN Wait
                   ELSE checkFrom(p, st, dependences, flexible, k + 1)

checkDependence(p, st, dependences, flexible) ==
    checkFrom(p, st, dependences, flexible, 1)

\* hasDependence that asks only the FlexDepender.
hasDependenceWeakOnly(p, st) ==
    checkDependence(p, st, p.factory.flex, TRUE)

\* hasDependence that asks only the Depender.
hasDependenceStrongOnly(p, st) ==
    checkDependence(p, st, p.factory.deps, FALSE)

\* hasDependence with "else if" before the FlexDepender test: a Depender's
\* answer is final.
hasDependenceDependerFinal(p, st) ==
    IF p.factory.deps # <<>>
    THEN checkDependence(p, st, p.factory.deps, FALSE)
    ELSE checkDependence(p, st, p.factory.flex, TRUE)

\* hasDependence that consults the FlexDepender first and the Depender only
\* when the weak list neither waits nor fails.
hasDependenceWeakFirst(p, st) ==
    LET weak == checkDependence(p, st, p.factory.flex, TRUE) IN
    IF weak.err # NoErr THEN weak
    ELSE IF weak.wait THEN Wait
    ELSE checkDependence(p, st, p.factory.deps, FALSE)

\* pluginInfo.hasDependence
hasDependence(p, st) ==
    LET strong == checkDependence(p, st, p.factory.deps, FALSE) IN
    IF strong.err # NoErr THEN strong
    ELSE IF strong.wait THEN Wait
    ELSE checkDependence(p, st, p.factory.flex, TRUE)

\* pluginInfo.asCloser
asCloser(p) == p.factory.closer

\* ------------------------------------------------------------------- Init
\* One entry of a dependency list: the owner's list (strong or weak) gets name.
DepEntry(owners) == [owner : owners, flexible : BOOLEAN, name : DepKeys]

RECURSIVE SeqsUpTo(_, _)
SeqsUpTo(S, n) ==
    IF n = 0 THEN {<<>>}
    ELSE LET shorter == SeqsUpTo(S, n - 1) IN
         shorter \cup {Append(s, e) : s \in {t \in shorter : Len(t) = n - 1}, e \in S}

\* The keys of the entries owned by p in list kind flexible, in entry order.
RECURSIVE listOf(_, _, _)
listOf(entries, p, flexible) ==
    IF entries = <<>> THEN <<>>
    ELSE LET e == Head(entries)
             rest == listOf(Tail(entries), p, flexible) IN
         IF e.owner = p /\ e.flexible = flexible THEN <<e.name>> \o rest ELSE rest

\* The registry after the Register calls of the program: the pairs in reg are
\* registered, with the capabilities given.
makeRegistry(reg, entries, closers, finishers) ==
    [p \in Universe |->
        IF p \in reg
        THEN [nil |-> FALSE,
              deps |-> listOf(entries, p, FALSE),
              flex |-> listOf(entries, p, TRUE),
              closer |-> p \in closers,
              finisher |-> p \in finishers]
        ELSE NilFactory]

\* Two families of factories: with dependencies, all of them Closers and
\* FinishNotifiers; without dependencies, any capabilities.
CapChoices(reg, entries) == IF entries = <<>> THEN SUBSET reg ELSE {reg}

\* ------------------------------------------ the other packages at start
\* Bound of the registry specification: the Register calls of a run.
MaxRegCalls == 2

\* The goroutines that call plugin.Register and plugin.Get.
RegGoroutines == {1, 2}

\* The factories handed to Register: Type() and the identity of the value.
Factories == [typ : Types, id : {1, 2}]

\* The nil Factory that Get answers for a missing entry.
NoFactory == [typ |-> "", id |-> 0]

\* A goroutine outside Register.
RegIdle == [pc |-> "idle", name |-> "", f |-> NoFactory, factories |-> 0]

\* var plugins = make(map[string]map[string]Factory): empty, no call running.
RegStart ==
    /\ regTable = [t \in Types |-> 0]
    /\ regHeap = <<>>
    /\ regG = [g \in RegGoroutines |-> RegIdle]
    /\ regLog = <<>>
    /\ regOverlap = FALSE
    /\ regFatal = FALSE

\* Logger names and values; "default" is defaultLoggerName.
defaultLoggerName == "default"
LogNames == {defaultLoggerName, "a", "b"}
NilLogger == "nil"
Loggers == {"zap", "l1", "l2"}

\* No log.Register call made yet by the program.
NoLogCall == [name |-> "", logger |-> NilLogger, panic |-> "none"]

\* After init(): Register(defaultLoggerName, NewZapLog(defaultConfig)).
LogStart ==
    /\ loggers = [n \in {defaultLoggerName} |-> "zap"]
    /\ DefaultLogger = "zap"
    /\ logCall = NoLogCall

\* The goroutines that call database.Init, the configurations they pass and
\* what newClient can answer for a configuration.
DbGoroutines == {1, 2, 3}
DbConfigs == {1, 2}
NilClient == [nil |-> TRUE, cfg |-> 0]
NilErr == "nil"
OpenErr == "failed to open mysql connection"
PingErr == "failed to ping mysql"
DbIdle == [pc |-> "idle", cfg |-> 0, client |-> NilClient, err |-> NilErr, returned |-> FALSE]

\* var clientInstance *Client; var once sync.Once; var initErr error.
DbStart ==
    /\ once = "new"
    /\ clientInstance = NilClient
    /\ initErr = NilErr
    /\ dbRuns = <<>>
    /\ dbG = [g \in DbGoroutines |-> DbIdle]

\* One call of pluginInfo.setup on the receiver d, before its go statement:
\* ch = make(chan struct{}), err nil, no timer yet.
NoReceiver == [typ |-> "", name |-> ""]
RaceStart(d) ==
    /\ sp = d
    /\ smain = "go"
    /\ sgo = "none"
    /\ serr = "nil"
    /\ ch = "open"
    /\ timer = "none"
    /\ sret = NoErr
    /\ first = "none"

Init ==
    /\ RegStart
    /\ LogStart
    /\ DbStart
    /\ RaceStart(NoReceiver)
    /\ MaxPluginSize \in PluginSizes
    /\ c \in SUBSET Universe
    /\ \E reg \in SUBSET c :
         \E entries \in SeqsUpTo(DepEntry(reg), MaxDepEntries) :
           \E closers \in CapChoices(reg, entries), finishers \in CapChoices(reg, entries) :
             registry = makeRegistry(reg, entries, closers, finishers)
    /\ pc = "load"
    /\ queued = <<>>
    /\ plugins = <<>>
    /\ status = [k \in {} |-> FALSE]
    /\ result = <<>>
    /\ closes = <<>>
    /\ num = 0
    /\ i = 0
    /\ cur = NoPlugin
    /\ fi = 1
    /\ close = [nil |-> TRUE, closes |-> <<>>]
    /\ err = NoErr
    /\ abandoned = [p \in {} |-> "running"]
    /\ ci = 0
    /\ passes = 0
    /\ setupCalls = <<>>
    /\ finishCalls = <<>>
    /\ closeCalls = 0
    /\ closeLog = <<>>
    /\ closeRet = "none"
    /\ closeErr = NoErr

\* ------------------------------------------------------- SetupClosables
\* Return that hands out a close function over the close list built so far
\* on the error paths too.
ReturnCloses(cl, e) ==
    /\ close' = [nil |-> FALSE, closes |-> closes]
    /\ err' = e
    /\ pc' = IF e = NoErr THEN "done" ELSE "failed"

\* SetupClosables returns (close, err).
Return(cl, e) ==
    /\ close' = cl
    /\ err' = e
    /\ pc' = IF e = NoErr THEN "done" ELSE "failed"

\* rangeAt walking the list from its end.
rangeAtReverse(res, k) == res[Len(res) - k + 1]

\* The descriptor the k-th iteration of "for _, p := range plugins" visits.
rangeAt(res, k) == res[k]

\* Index of the first FinishNotifier of res at or after k, Len(res) + 1 if none:
\* pluginInfo.onFinish returns nil at once for the other descriptors.
RECURSIVE nextNotifier(_, _)
nextNotifier(res, k) ==
    IF k > Len(res) THEN k
    ELSE IF rangeAt(res, k).factory.finisher THEN k
    ELSE nextNotifier(res, k + 1)

\* EnterFinish for a setupPlugins that runs the progress check of its loop
\* before the test num > 0: with nothing set up it returns the cycle error.
EnterFinishProgressFirst(res, cls, k) ==
    /\ fi' = nextNotifier(res, k)
    /\ IF res = <<>>
       THEN Return(close, CycleErr)
       ELSE IF fi' > Len(res)
       THEN Return([nil |-> FALSE, closes |-> cls], NoErr)
       ELSE pc' = "finish" /\ UNCHANGED <<close, err>>

\* setupPlugins returned (res, cls, nil): Config.onFinish starts, and when no
\* OnFinish call is left SetupClosables returns the close function.
EnterFinish(res, cls, k) ==
    /\ fi' = nextNotifier(res, k)
    /\ IF fi' > Len(res)
       THEN Return([nil |-> FALSE, closes |-> cls], NoErr)
       ELSE pc' = "finish" /\ UNCHANGED <<close, err>>

\* EndIteration with "if num > 0" for "for num > 0": setupPlugins returns after
\* one pass whatever is left in the working set.
EndIterationOnePass(q, res, cls, i2) ==
    IF i2 < num
    THEN pc' = "setup" /\ i' = i2 /\ UNCHANGED <<num, passes, fi, close, err>>
    ELSE IF Len(q) = num
    THEN i' = i2 /\ UNCHANGED <<num, passes, fi>> /\ Return(close, CycleErr)
    ELSE num' = Len(q) /\ i' = i2 /\ UNCHANGED passes /\ EnterFinish(res, cls, 1)

\* EndIteration without "if len(plugins) == num": a pass that retired nothing
\* is followed by another pass.
EndIterationNoProgressCheck(q, res, cls, i2) ==
    IF i2 < num
    THEN pc' = "setup" /\ i' = i2 /\ UNCHANGED <<num, passes, fi, close, err>>
    ELSE IF Len(q) > 0
    THEN /\ pc' = "setup" /\ num' = Len(q) /\ i' = 0 /\ passes' = passes + 1
         /\ UNCHANGED <<fi, close, err>>
    ELSE num' = 0 /\ i' = i2 /\ UNCHANGED passes /\ EnterFinish(res, cls, 1)

\* EndIteration with "if len(plugins) > 0" for "if len(plugins) == num": the
\* cycle error whenever a pass leaves a descriptor waiting.
EndIterationAnyWaiting(q, res, cls, i2) ==
    IF i2 < num
    THEN pc' = "setup" /\ i' = i2 /\ UNCHANGED <<num, passes, fi, close, err>>
    ELSE IF Len(q) > 0
    THEN i' = i2 /\ UNCHANGED <<num, passes, fi>> /\ Return(close, CycleErr)
    ELSE num' = 0 /\ i' = i2 /\ UNCHANGED passes /\ EnterFinish(res, cls, 1)

\* EndIteration that hands out, with the cycle error, a close function over
\* the plugins set up so far.
EndIterationCycleCloses(q, res, cls, i2) ==
    IF i2 < num
    THEN pc' = "setup" /\ i' = i2 /\ UNCHANGED <<num, passes, fi, close, err>>
    ELSE IF Len(q) = num
    THEN /\ i' = i2 /\ UNCHANGED <<num, passes, fi>>
         /\ Return([nil |-> FALSE, closes |-> cls], CycleErr)
    ELSE IF Len(q) > 0
    THEN /\ pc' = "setup" /\ num' = Len(q) /\ i' = 0 /\ passes' = passes + 1
         /\ UNCHANGED <<fi, close, err>>
    ELSE num' = 0 /\ i' = i2 /\ UNCHANGED passes /\ EnterFinish(res, cls, 1)

\* setupPlugins after the i2-th iteration of the pass left the working set q:
\* next iteration, or the end of the pass (cycle check, next pass, return).
EndIteration(q, res, cls, i2) ==
    IF i2 < num
    THEN pc' = "setup" /\ i' = i2 /\ UNCHANGED <<num, passes, fi, close, err>>
    ELSE IF Len(q) = num
    THEN i' = i2 /\ UNCHANGED <<num, passes, fi>> /\ Return(close, CycleErr)
    ELSE IF Len(q) > 0
    THEN /\ pc' = "setup" /\ num' = Len(q) /\ i' = 0 /\ passes' = passes + 1
         /\ UNCHANGED <<fi, close, err>>
    ELSE num' = 0 /\ i' = i2 /\ UNCHANGED passes /\ EnterFinish(res, cls, 1)

\* The orders in which the nested range loops of loadPlugins can visit the
\* configuration: map iteration order is unspecified, pairs of one type are
\* visited together.
Orders(cfg) ==
    {s \in [1..Cardinality(cfg) -> cfg] :
        /\ \A a, b \in DOMAIN s : a # b => s[a] # s[b]
        /\ \A a, b, d \in DOMAIN s :
              a < b /\ b < d /\ s[a].typ = s[d].typ => s[b].typ = s[a].typ}

Min(S) == CHOOSE m \in S : \A o \in S : m <= o

\* loadPluginsErr with the send on the channel tried before Get.
loadPluginsErrCapacityFirst(reg, order) ==
    LET unregistered(k) == Get(reg, order[k].typ, order[k].name).nil
        Bad == {k \in 1..Len(order) : unregistered(k) \/ k > MaxPluginSize}
    IN  IF Bad = {} THEN NoErr
        ELSE IF Min(Bad) > MaxPluginSize THEN CapacityErr
        ELSE LookupErr(order[Min(Bad)].typ, order[Min(Bad)].name)

\* loadPluginsErr for a channel of capacity MaxPluginSize - 1.
loadPluginsErrOneLess(reg, order) ==
    LET unregistered(k) == Get(reg, order[k].typ, order[k].name).nil
        Bad == {k \in 1..Len(order) : unregistered(k) \/ k >= MaxPluginSize}
    IN  IF Bad = {} THEN NoErr
        ELSE IF unregistered(Min(Bad))
        THEN LookupErr(order[Min(Bad)].typ, order[Min(Bad)].name)
        ELSE CapacityErr

\* The error the loop of loadPlugins ends with when it visits the pairs in
\* this order, NoErr when it completes: Get returns nil, or the channel of
\* capacity MaxPluginSize is full.
loadPluginsErr(reg, order) ==
    LET unregistered(k) == Get(reg, order[k].typ, order[k].name).nil
        Bad == {k \in 1..Len(order) : unregistered(k) \/ k > MaxPluginSize}
    IN  IF Bad = {} THEN NoErr
        ELSE IF unregistered(Min(Bad))
        THEN LookupErr(order[Min(Bad)].typ, order[Min(Bad)].name)
        ELSE CapacityErr

\* loadPlugins that leaves the status entry of the last descriptor it queued
\* to the iteration that sets it up.
LoadPluginsStatusLate ==
    /\ pc = "load"
    /\ \E order \in Orders(c) :
         IF loadPluginsErr(registry, order) # NoErr
         THEN /\ Return(close, loadPluginsErr(registry, order))
              /\ UNCHANGED <<queued, plugins, status, num, i, fi, passes>>
         ELSE /\ plugins' = [k \in 1..Len(order) |->
                                pluginInfo(registry, order[k].typ, order[k].name)]
              /\ queued' = plugins'
              /\ status' = [k \in {key(order[j]) : j \in 1..(Len(order) - 1)} |-> FALSE]
              /\ IF Len(order) > 0
                 THEN /\ pc' = "setup" /\ num' = Len(order) /\ i' = 0 /\ passes' = 1
                      /\ UNCHANGED <<fi, close, err>>
                 ELSE num' = 0 /\ i' = 0 /\ UNCHANGED passes /\ EnterFinish(<<>>, <<>>, 1)
    /\ UNCHANGED <<otherVars, MaxPluginSize, c, registry, result, closes, cur, abandoned, ci,
                   setupCalls, finishCalls, closeCalls, closeLog, closeRet, closeErr>>

\* Config.loadPlugins, then the entry of setupPlugins.
LoadPlugins ==
    /\ pc = "load"
    /\ \E order \in Orders(c) :
         IF loadPluginsErr(registry, order) # NoErr
         THEN /\ Return(close, loadPluginsErr(registry, order))
              /\ UNCHANGED <<queued, plugins, status, num, i, fi, passes>>
         ELSE /\ plugins' = [k \in 1..Len(order) |->
                                pluginInfo(registry, order[k].typ, order[k].name)]
              /\ queued' = plugins'
              /\ status' = [k \in {key(p) : p \in c} |-> FALSE]
              /\ IF Len(order) > 0
                 THEN /\ pc' = "setup" /\ num' = Len(order) /\ i' = 0 /\ passes' = 1
                      /\ UNCHANGED <<fi, close, err>>
                 ELSE num' = 0 /\ i' = 0 /\ UNCHANGED passes /\ EnterFinish(<<>>, <<>>, 1)
    /\ UNCHANGED <<otherVars, MaxPluginSize, c, registry, result, closes, cur, abandoned, ci,
                   setupCalls, finishCalls, closeCalls, closeLog, closeRet, closeErr>>

\* SetupPluginsStep that receives any descriptor of the working set, not the
\* one at its head (a working set without an order, such as a map).
SetupPluginsStepAnyOrder ==
    /\ pc = "setup"
    /\ \E k \in 1..Len(plugins) :
       LET p == plugins[k]
           rest == SubSeq(plugins, 1, k - 1) \o SubSeq(plugins, k + 1, Len(plugins))
           r == hasDependence(p, status)
       IN  IF r.err # NoErr
           THEN /\ plugins' = rest
                /\ Return(close, r.err)
                /\ UNCHANGED <<num, i, fi, cur, passes, setupCalls>>
           ELSE IF r.wait
           THEN /\ plugins' = Append(rest, p)
                /\ EndIteration(plugins', result, closes, i + 1)
                /\ UNCHANGED <<cur, setupCalls>>
           ELSE /\ plugins' = rest
                /\ cur' = p
                /\ setupCalls' = Append(setupCalls, p)
                /\ pc' = "insetup"
                /\ UNCHANGED <<num, i, fi, close, err, passes>>
    /\ UNCHANGED <<otherVars, queued, MaxPluginSize, c, registry, status, result, closes, abandoned, ci,
                   finishCalls, closeCalls, closeLog, closeRet, closeErr>>

\* SetupPluginsStep without "plugins <- p": a descriptor that must wait is
\* not put back.
SetupPluginsStepDropWaiting ==
    /\ pc = "setup"
    /\ LET p == Head(plugins)
           rest == Tail(plugins)
           r == hasDependence(p, status)
       IN  IF r.err # NoErr
           THEN /\ plugins' = rest
                /\ Return(close, r.err)
                /\ UNCHANGED <<num, i, fi, cur, passes, setupCalls>>
           ELSE IF r.wait
           THEN /\ plugins' = rest
                /\ EndIteration(plugins', result, closes, i + 1)
                /\ UNCHANGED <<cur, setupCalls>>
           ELSE /\ plugins' = rest
                /\ cur' = p
                /\ setupCalls' = Append(setupCalls, p)
                /\ pc' = "insetup"
                /\ UNCHANGED <<num, i, fi, close, err, passes>>
    /\ UNCHANGED <<otherVars, queued, MaxPluginSize, c, registry, status, result, closes, abandoned, ci,
                   finishCalls, closeCalls, closeLog, closeRet, closeErr>>

\* One iteration of the inner loop of setupPlugins up to the select of
\* pluginInfo.setup: receive a descriptor, ask the resolver, and either fail,
\* put the descriptor back, or start its Setup goroutine.
SetupPluginsStep ==
    /\ pc = "setup"
    /\ LET p == Head(plugins)
           rest == Tail(plugins)
           r == hasDependence(p, status)
       IN  IF r.err # NoErr
           THEN /\ plugins' = rest
                /\ Return(close, r.err)
                /\ UNCHANGED <<num, i, fi, cur, passes, setupCalls>>
           ELSE IF r.wait
           THEN /\ plugins' = Append(rest, p)
                /\ EndIteration(plugins', result, closes, i + 1)
                /\ UNCHANGED <<cur, setupCalls>>
           ELSE /\ plugins' = rest
                /\ cur' = p
                /\ setupCalls' = Append(setupCalls, p)
                /\ pc' = "insetup"
                /\ UNCHANGED <<num, i, fi, close, err, passes>>
    /\ UNCHANGED <<otherVars, queued, MaxPluginSize, c, registry, status, result, closes, abandoned, ci,
                   finishCalls, closeCalls, closeLog, closeRet, closeErr>>

\* SetupReturns that leaves the status map as it is (the map brought up to
\* date between passes only).
SetupReturnsStatusLater ==
    /\ pc = "insetup"
    /\ closes' = IF asCloser(cur) THEN Append(closes, cur) ELSE closes
    /\ status' = status
    /\ result' = Append(result, cur)
    /\ cur' = NoPlugin
    /\ EndIteration(plugins, result', closes', i + 1)
    /\ UNCHANGED <<otherVars, queued, MaxPluginSize, c, registry, plugins, abandoned, ci,
                   setupCalls, finishCalls, closeCalls, closeLog, closeRet, closeErr>>

\* select case <-ch with err == nil: Setup returned success before the timer.
SetupReturns ==
    /\ pc = "insetup"
    /\ closes' = IF asCloser(cur) THEN Append(closes, cur) ELSE closes
    /\ status' = [status EXCEPT ![key(cur)] = TRUE]
    /\ result' = Append(result, cur)
    /\ cur' = NoPlugin
    /\ EndIteration(plugins, result', closes', i + 1)
    /\ UNCHANGED <<otherVars, queued, MaxPluginSize, c, registry, plugins, abandoned, ci,
                   setupCalls, finishCalls, closeCalls, closeLog, closeRet, closeErr>>

\* SetupFails that closes, in reverse order, the plugins set up so far before
\* it returns the error.
SetupFailsClosing ==
    /\ pc = "insetup"
    /\ Return(close, SetupErr(cur))
    /\ cur' = NoPlugin
    /\ closeLog' = [k \in 1..Len(closes) |-> closes[Len(closes) - k + 1]]
    /\ UNCHANGED <<otherVars, queued, MaxPluginSize, c, registry, plugins, status, result, closes, num, i, fi,
                   abandoned, ci, passes, setupCalls, finishCalls, closeCalls, closeRet, closeErr>>

\* select case <-ch with err != nil: Setup returned an error before the timer.
SetupFails ==
    /\ pc = "insetup"
    /\ Return(close, SetupErr(cur))
    /\ cur' = NoPlugin
    /\ UNCHANGED <<otherVars, queued, MaxPluginSize, c, registry, plugins, status, result, closes, num, i, fi,
                   abandoned, ci, passes, setupCalls, finishCalls, closeCalls, closeLog, closeRet, closeErr>>

\* select case <-time.After(SetupTimeout): the timer fired first; the Setup
\* goroutine keeps running.
SetupTimesOut ==
    /\ pc = "insetup"
    /\ Return(close, TimeoutErr(cur))
    /\ abandoned' = [p \in DOMAIN abandoned \cup {cur} |->
                         IF p = cur THEN "running" ELSE abandoned[p]]
    /\ cur' = NoPlugin
    /\ UNCHANGED <<otherVars, queued, MaxPluginSize, c, registry, plugins, status, result, closes, num, i, fi,
                   ci, passes, setupCalls, finishCalls, closeCalls, closeLog, closeRet, closeErr>>

\* AbandonedSetupReturns whose goroutine completes the iteration it was
\* started in: a late success is stored in the status map and the lists.
AbandonedSetupReturnsStores ==
    /\ \E p \in DOMAIN abandoned, outcome \in {"nil", "err"} :
         /\ abandoned[p] = "running"
         /\ abandoned' = [abandoned EXCEPT ![p] = outcome]
         /\ IF outcome = "nil"
            THEN /\ status' = [status EXCEPT ![key(p)] = TRUE]
                 /\ result' = Append(result, p)
                 /\ closes' = IF asCloser(p) THEN Append(closes, p) ELSE closes
            ELSE UNCHANGED <<status, result, closes>>
    /\ UNCHANGED <<otherVars, queued, MaxPluginSize, c, registry, pc, plugins, num, i, cur,
                   fi, close, err, ci, passes, setupCalls, finishCalls, closeCalls, closeLog, closeRet, closeErr>>

\* The goroutine of an abandoned Setup call finishes: it assigns the err
\* variable of the setup call that has returned and closes ch.
AbandonedSetupReturns ==
    /\ \E p \in DOMAIN abandoned, outcome \in {"nil", "err"} :
         /\ abandoned[p] = "running"
         /\ abandoned' = [abandoned EXCEPT ![p] = outcome]
    /\ UNCHANGED <<otherVars, queued, MaxPluginSize, c, registry, pc, plugins, status, result, closes, num, i, cur,
                   fi, close, err, ci, passes, setupCalls, finishCalls, closeCalls, closeLog, closeRet, closeErr>>

\* OnFinish that keeps the first error and goes on notifying.
OnFinishKeepGoing ==
    /\ pc = "finish"
    /\ finishCalls' = Append(finishCalls, rangeAt(result, fi))
    /\ \E ok \in BOOLEAN :
         LET e == IF ok \/ err # NoErr THEN err
                  ELSE PluginErr("OnFinish", rangeAt(result, fi))
         IN  /\ fi' = nextNotifier(result, fi + 1)
             /\ IF fi' > Len(result)
                THEN Return(IF e = NoErr THEN [nil |-> FALSE, closes |-> closes]
                                         ELSE close, e)
                ELSE pc' = "finish" /\ err' = e /\ UNCHANGED close
    /\ UNCHANGED <<otherVars, queued, MaxPluginSize, c, registry, plugins, status, result, closes, num, i, cur,
                   abandoned, ci, passes, setupCalls, closeCalls, closeLog, closeRet, closeErr>>

\* One OnFinish call of Config.onFinish, with its outcome.
OnFinish ==
    /\ pc = "finish"
    /\ finishCalls' = Append(finishCalls, rangeAt(result, fi))
    /\ \E ok \in BOOLEAN :
         IF ok
         THEN EnterFinish(result, closes, fi + 1)
         ELSE Return(close, PluginErr("OnFinish", rangeAt(result, fi))) /\ UNCHANGED fi
    /\ UNCHANGED <<otherVars, queued, MaxPluginSize, c, registry, plugins, status, result, closes, num, i, cur,
                   abandoned, ci, passes, setupCalls, closeCalls, closeLog, closeRet, closeErr>>

\* ----------------------------------------------- the returned close function
closing == closeRet = "run"

\* closeAt walking the close list from its start.
closeAtForward(cls, k) == cls[Len(cls) - k + 1]

\* closes[i] of the returned function, for the loop variable i counted from 1.
closeAt(cls, k) == cls[k]

\* CloseCall of a close function that remembers where it stopped: after an
\* invocation that halted on an error it goes on from the Close that failed.
CloseCallResumes ==
    /\ pc = "done"
    /\ ~close.nil
    /\ ~closing
    /\ closeCalls < MaxCloseCalls
    /\ closeCalls' = closeCalls + 1
    /\ closeLog' = <<>>
    /\ ci' = IF closeRet = "err" THEN ci ELSE Len(close.closes)
    /\ closeRet' = IF ci' = 0 THEN "nil" ELSE "run"
    /\ closeErr' = NoErr
    /\ UNCHANGED <<otherVars, queued, MaxPluginSize, c, registry, pc, plugins, status, result, closes, num, i, cur,
                   fi, close, err, abandoned, passes, setupCalls, finishCalls>>

\* The caller invokes the returned function: i := len(closes) - 1.
CloseCall ==
    /\ pc = "done"
    /\ ~close.nil
    /\ ~closing
    /\ closeCalls < MaxCloseCalls
    /\ closeCalls' = closeCalls + 1
    /\ closeLog' = <<>>
    /\ ci' = Len(close.closes)
    /\ closeRet' = IF ci' = 0 THEN "nil" ELSE "run"
    /\ closeErr' = NoErr
    /\ UNCHANGED <<otherVars, queued, MaxPluginSize, c, registry, pc, plugins, status, result, closes, num, i, cur,
                   fi, close, err, abandoned, passes, setupCalls, finishCalls>>

\* CloseStep that remembers the first error and goes on closing.
CloseStepKeepGoing ==
    /\ closing
    /\ closeLog' = Append(closeLog, closeAt(close.closes, ci))
    /\ \E ok \in BOOLEAN :
         /\ ci' = ci - 1
         /\ closeErr' = IF ok \/ closeErr # NoErr THEN closeErr
                         ELSE PluginErr("Close", closeAt(close.closes, ci))
         /\ closeRet' = IF ci' > 0 THEN "run"
                         ELSE IF closeErr' = NoErr THEN "nil" ELSE "err"
    /\ UNCHANGED <<otherVars, queued, MaxPluginSize, c, registry, pc, plugins, status, result, closes, num, i, cur,
                   fi, close, err, abandoned, passes, setupCalls, finishCalls, closeCalls>>

\* One iteration of the loop of the returned function: closes[i]().
CloseStep ==
    /\ closing
    /\ closeLog' = Append(closeLog, closeAt(close.closes, ci))
    /\ \E ok \in BOOLEAN :
         IF ok
         THEN /\ ci' = ci - 1
              /\ closeRet' = IF ci' = 0 THEN "nil" ELSE "run"
              /\ closeErr' = NoErr
         ELSE /\ ci' = ci
              /\ closeRet' = "err"
              /\ closeErr' = PluginErr("Close", closeAt(close.closes, ci))
    /\ UNCHANGED <<otherVars, queued, MaxPluginSize, c, registry, pc, plugins, status, result, closes, num, i, cur,
                   fi, close, err, abandoned, passes, setupCalls, finishCalls, closeCalls>>

Next ==
    \/ LoadPlugins
    \/ SetupPluginsStep
    \/ SetupReturns
    \/ SetupFails
    \/ SetupTimesOut
    \/ AbandonedSetupReturns
    \/ OnFinish
    \/ CloseCall
    \/ CloseStep

Spec == Init /\ [][Next]_vars

\* ------------------------------------------- the orchestrator left alone
\* SetupClosables not called: an empty Config and nothing registered for it.
SetupIdle ==
    /\ MaxPluginSize = 3
    /\ c = {}
    /\ registry = [p \in Universe |-> NilFactory]
    /\ pc = "load"
    /\ queued = <<>>
    /\ plugins = <<>>
    /\ status = [k \in {} |-> FALSE]
    /\ result = <<>>
    /\ closes = <<>>
    /\ num = 0
    /\ i = 0
    /\ cur = NoPlugin
    /\ fi = 1
    /\ close = [nil |-> TRUE, closes |-> <<>>]
    /\ err = NoErr
    /\ abandoned = [p \in {} |-> "running"]
    /\ ci = 0
    /\ passes = 0
    /\ setupCalls = <<>>
    /\ finishCalls = <<>>
    /\ closeCalls = 0
    /\ closeLog = <<>>
    /\ closeRet = "none"
    /\ closeErr = NoErr

\* ------------------------------------------------- plugin.Register / Get
\* A fresh inner map: make(map[string]Factory).
EmptyFactories == [n \in Names |-> NoFactory]

\* factories[name] = f, that keeps an entry the map already has.
setFactoryIfAbsent(m, name, f) ==
    IF m[name] = NoFactory THEN [m EXCEPT ![name] = f] ELSE m

\* factories[name] = f
setFactory(m, name, f) == [m EXCEPT ![name] = f]

\* The package variable plugins as one table: plugins[typ][name], the nil
\* Factory where the outer or the inner map has no entry.
pluginsOf(table, heap) ==
    [p \in Universe |->
        IF table[p.typ] = 0 THEN NoFactory ELSE heap[table[p.typ]][p.name]]

\* The goroutines, other than g, inside a Register call.
InFlight(g) == {h \in RegGoroutines \ {g} : regG[h].pc # "idle"}

\* The map access goroutine h is about to make: the outer map is map 0, an
\* inner map is its index in regHeap.
Pending(h) ==
    CASE regG[h].pc = "L21" -> [map |-> 0, write |-> FALSE]
      [] regG[h].pc = "L23" -> [map |-> 0, write |-> TRUE]
      [] regG[h].pc = "L26" -> [map |-> regG[h].factories, write |-> TRUE]

\* An access of goroutine g to the map is unordered with an access another
\* goroutine is about to make to the same map, and one of the two writes:
\* no lock of plugin.go orders them.
Races(g, map, write) ==
    \E h \in InFlight(g) :
        /\ Pending(h).map = map
        /\ write \/ Pending(h).write

\* What a map access can do: without a race it completes; with one the
\* runtime may throw ("concurrent map writes") or let it complete.
Throws(g, map, write) == IF Races(g, map, write) THEN {TRUE, FALSE} ELSE {FALSE}

\* Register(name, f) is called by goroutine g.
RegisterCall(g) ==
    /\ ~regFatal
    /\ regG[g].pc = "idle"
    /\ Len(regLog) < MaxRegCalls
    /\ \E name \in Names, f \in Factories :
         /\ regG' = [regG EXCEPT ![g] = [pc |-> "L21", name |-> name, f |-> f, factories |-> 0]]
         /\ regLog' = Append(regLog, [g |-> g, name |-> name, f |-> f])
    /\ regOverlap' = (regOverlap \/ InFlight(g) # {})
    /\ UNCHANGED <<regTable, regHeap, regFatal>>
    /\ UNCHANGED <<raceVars, setupVars, logVars, dbVars>>

\* factories, ok := plugins[f.Type()]
RegisterRead(g) ==
    /\ ~regFatal
    /\ regG[g].pc = "L21"
    /\ \E thrown \in Throws(g, 0, FALSE) :
         /\ regFatal' = thrown
         /\ regG' = IF thrown THEN regG
                    ELSE [regG EXCEPT ![g].factories = regTable[regG[g].f.typ],
                                      ![g].pc = IF regTable[regG[g].f.typ] = 0 THEN "L23" ELSE "L26"]
    /\ UNCHANGED <<regTable, regHeap, regLog, regOverlap>>
    /\ UNCHANGED <<raceVars, setupVars, logVars, dbVars>>

\* factories = make(map[string]Factory); plugins[f.Type()] = factories
RegisterMake(g) ==
    /\ ~regFatal
    /\ regG[g].pc = "L23"
    /\ \E thrown \in Throws(g, 0, TRUE) :
         /\ regFatal' = thrown
         /\ IF thrown
            THEN UNCHANGED <<regG, regHeap, regTable>>
            ELSE /\ regHeap' = Append(regHeap, EmptyFactories)
                 /\ regTable' = [regTable EXCEPT ![regG[g].f.typ] = Len(regHeap) + 1]
                 /\ regG' = [regG EXCEPT ![g].factories = Len(regHeap) + 1, ![g].pc = "L26"]
    /\ UNCHANGED <<regLog, regOverlap>>
    /\ UNCHANGED <<raceVars, setupVars, logVars, dbVars>>

\* factories[name] = f, and Register returns.
RegisterStore(g) ==
    /\ ~regFatal
    /\ regG[g].pc = "L26"
    /\ \E thrown \in Throws(g, regG[g].factories, TRUE) :
         /\ regFatal' = thrown
         /\ IF thrown
            THEN UNCHANGED <<regG, regHeap>>
            ELSE /\ regHeap' = [regHeap EXCEPT ![regG[g].factories] =
                                   setFactory(@, regG[g].name, regG[g].f)]
                 /\ regG' = [regG EXCEPT ![g] = RegIdle]
    /\ UNCHANGED <<regTable, regLog, regOverlap>>
    /\ UNCHANGED <<raceVars, setupVars, logVars, dbVars>>

\* Get(typ, name) is called by goroutine g: it reads the outer map and then
\* the inner map of the type.
GetCall(g) ==
    /\ ~regFatal
    /\ regG[g].pc = "idle"
    /\ \E typ \in Types :
         \E thrown \in Throws(g, 0, FALSE) \cup Throws(g, regTable[typ], FALSE) :
             regFatal' = thrown
    /\ regOverlap' = (regOverlap \/ InFlight(g) # {})
    /\ UNCHANGED <<regTable, regHeap, regG, regLog>>
    /\ UNCHANGED <<raceVars, setupVars, logVars, dbVars>>

RegInit == SetupIdle /\ RegStart /\ LogStart /\ DbStart /\ RaceStart(NoReceiver)

RegNext ==
    \E g \in RegGoroutines :
        \/ RegisterCall(g)
        \/ RegisterRead(g)
        \/ RegisterMake(g)
        \/ RegisterStore(g)
        \/ GetCall(g)

RegSpec == RegInit /\ [][RegNext]_vars

\* ----------------------------------------------------------- log.Register
\* Register without the duplicate test: it panics on a nil logger only.
registerPanicNilOnly(tbl, name, logger) ==
    IF logger = NilLogger THEN "log: Register logger is nil" ELSE "none"

\* The panic of Register(name, logger) on the table, "none" when it returns.
registerPanic(tbl, name, logger) ==
    IF logger = NilLogger THEN "log: Register logger is nil"
    ELSE IF name \in DOMAIN tbl /\ name # defaultLoggerName
         THEN "log: Register called twiced for logger name"
         ELSE "none"

\* loggers[name] = logger
setLogger(tbl, name, logger) ==
    [n \in DOMAIN tbl \cup {name} |-> IF n = name THEN logger ELSE tbl[n]]

\* Register(name, logger), the whole call under mu.Lock(); a panic leaves
\* the function before the assignments and the deferred Unlock lets the
\* next call in.
LogRegister ==
    /\ \E name \in LogNames, logger \in Loggers \cup {NilLogger} :
         /\ logCall' = [name |-> name, logger |-> logger,
                        panic |-> registerPanic(loggers, name, logger)]
         /\ IF registerPanic(loggers, name, logger) # "none"
            THEN UNCHANGED <<loggers, DefaultLogger>>
            ELSE /\ loggers' = setLogger(loggers, name, logger)
                 /\ DefaultLogger' = IF name = defaultLoggerName THEN logger
                                     ELSE DefaultLogger
    /\ UNCHANGED <<raceVars, setupVars, regVars, dbVars>>

LogInit == SetupIdle /\ RegStart /\ LogStart /\ DbStart /\ RaceStart(NoReceiver)

LogNext == LogRegister

LogSpec == LogInit /\ [][LogNext]_vars

\* ---------------------------------------------------------- database.Init
\* once.Do that forgets a finished run: it runs f whenever no run is going on.
DoAlways(o) == IF o = "running" THEN "wait" ELSE "run"

\* once.Do(f) of sync.Once: the first caller runs f, a caller that arrives
\* during the run waits for its end, a later caller skips f.
Do(o) == CASE o = "new" -> "run" [] o = "running" -> "wait" [] o = "done" -> "skip"

\* What newClient(cfg, svcLogger) can return: a Client for the
\* configuration, or the error of gorm.Open, of db.DB() or of the ping.
newClient(cfg) ==
    {[client |-> [nil |-> FALSE, cfg |-> cfg], err |-> NilErr],
     [client |-> NilClient, err |-> OpenErr],
     [client |-> NilClient, err |-> PingErr]}

\* Init(cfg, svcLogger) is called by goroutine g.
InitCall(g) ==
    /\ dbG[g].pc = "idle"
    /\ \E cfg \in DbConfigs :
         dbG' = [dbG EXCEPT ![g] = [pc |-> "do", cfg |-> cfg, client |-> NilClient,
                                    err |-> NilErr, returned |-> FALSE]]
    /\ UNCHANGED <<once, clientInstance, initErr, dbRuns>>
    /\ UNCHANGED <<raceVars, setupVars, regVars, logVars>>

\* once.Do(func() {...}): enter the function or pass by it.
OnceDo(g) ==
    /\ dbG[g].pc = "do"
    /\ Do(once) # "wait"
    /\ IF Do(once) = "run"
       THEN once' = "running" /\ dbG' = [dbG EXCEPT ![g].pc = "newClient"]
       ELSE once' = once /\ dbG' = [dbG EXCEPT ![g].pc = "check"]
    /\ UNCHANGED <<clientInstance, initErr, dbRuns>>
    /\ UNCHANGED <<raceVars, setupVars, regVars, logVars>>

\* clientInstance, initErr = newClient(cfg, svcLogger), and Do is over.
NewClientReturns(g) ==
    /\ dbG[g].pc = "newClient"
    /\ \E out \in newClient(dbG[g].cfg) :
         /\ clientInstance' = out.client
         /\ initErr' = out.err
         /\ dbRuns' = Append(dbRuns, out)
    /\ once' = "done"
    /\ dbG' = [dbG EXCEPT ![g].pc = "check"]
    /\ UNCHANGED <<raceVars, setupVars, regVars, logVars>>

\* if initErr != nil { return nil, initErr }; return clientInstance, nil
InitReturns(g) ==
    /\ dbG[g].pc = "check"
    /\ dbG' = [dbG EXCEPT ![g].pc = "idle",
                          ![g].client = IF initErr # NilErr THEN NilClient ELSE clientInstance,
                          ![g].err = initErr,
                          ![g].returned = TRUE]
    /\ UNCHANGED <<once, clientInstance, initErr, dbRuns>>
    /\ UNCHANGED <<raceVars, setupVars, regVars, logVars>>

DbInit == SetupIdle /\ RegStart /\ LogStart /\ DbStart /\ RaceStart(NoReceiver)

DbNext ==
    \E g \in DbGoroutines :
        \/ InitCall(g)
        \/ OnceDo(g)
        \/ NewClientReturns(g)
        \/ InitReturns(g)

DbSpec == DbInit /\ [][DbNext]_vars

\* ------------------------------------------------------ pluginInfo.setup
\* A select that lets a later event replace the case it was woken with.
selectWakeLast(main, case) ==
    IF main \in {"select", "ch", "timer"} THEN case ELSE main

\* The select of setup blocked on both channels is woken by the first of
\* them that becomes ready and is committed to that case.
selectWake(main, case) == IF main = "select" THEN case ELSE main

\* The select of setup when it is entered: the timer is new and cannot have
\* fired (SetupTimeout is 3 seconds), so it takes case <-ch when ch is
\* closed already and blocks otherwise.
selectPoll(chan) == IF chan = "closed" THEN "ch" ELSE "select"

\* go func() { ... }()
SetupGo ==
    /\ smain = "go"
    /\ smain' = "enter"
    /\ sgo' = "Setup"
    /\ UNCHANGED <<sp, serr, ch, timer, sret, first>>
    /\ UNCHANGED <<setupVars, regVars, logVars, dbVars>>

\* The orchestrator reaches the select: time.After(SetupTimeout) starts the
\* timer.
SelectEnter ==
    /\ smain = "enter"
    /\ timer' = "armed"
    /\ smain' = selectPoll(ch)
    /\ UNCHANGED <<sp, sgo, serr, ch, sret, first>>
    /\ UNCHANGED <<setupVars, regVars, logVars, dbVars>>

\* err = p.factory.Setup(p.name, ...): Setup returns in the goroutine.
SetupAssigns ==
    /\ sgo = "Setup"
    /\ \E outcome \in {"nil", "err"} : serr' = outcome
    /\ sgo' = "close"
    /\ UNCHANGED <<sp, smain, ch, timer, sret, first>>
    /\ UNCHANGED <<setupVars, regVars, logVars, dbVars>>

\* close(ch): the call of Setup is resolved, and the goroutine ends.
CloseCh ==
    /\ sgo = "close"
    /\ sgo' = "exit"
    /\ ch' = "closed"
    /\ smain' = selectWake(smain, "ch")
    /\ first' = IF first = "none" THEN "setup" ELSE first
    /\ UNCHANGED <<sp, serr, timer, sret>>
    /\ UNCHANGED <<setupVars, regVars, logVars, dbVars>>

\* The timer fires; without a receiver its value stays in its channel.
TimerFires ==
    /\ timer = "armed"
    /\ timer' = "fired"
    /\ smain' = selectWake(smain, "timer")
    /\ first' = IF first = "none" THEN "timer" ELSE first
    /\ UNCHANGED <<sp, sgo, serr, ch, sret>>
    /\ UNCHANGED <<setupVars, regVars, logVars, dbVars>>

\* setup returns: the timeout error on the timer case; on case <-ch the
\* wrapped err when err != nil, else nil.
SetupCallReturns ==
    /\ smain \in {"ch", "timer"}
    /\ sret' = IF smain = "timer" THEN TimeoutErr(sp)
               ELSE IF serr # "nil" THEN SetupErr(sp)
               ELSE NoErr
    /\ smain' = "returned"
    /\ UNCHANGED <<sp, sgo, serr, ch, timer, first>>
    /\ UNCHANGED <<setupVars, regVars, logVars, dbVars>>

RaceInit ==
    /\ SetupIdle /\ RegStart /\ LogStart /\ DbStart
    /\ \E d \in Universe : RaceStart(d)

RaceNext ==
    \/ SetupGo
    \/ SelectEnter
    \/ SetupAssigns
    \/ CloseCh
    \/ TimerFires
    \/ SetupCallReturns

RaceSpec == RaceInit /\ [][RaceNext]_vars


\* ============================================================ properties
Range(s) == {s[k] : k \in 1..Len(s)}
Last(s) == s[Len(s)]
Reverse(s) == [k \in 1..Len(s) |-> s[Len(s) - k + 1]]
Distinct(s) == \A a, b \in 1..Len(s) : a # b => s[a] # s[b]
IsPrefix(s, t) == Len(s) <= Len(t) /\ \A k \in 1..Len(s) : s[k] = t[k]

\* The descriptor of a configured pair, and the descriptors of the run.
Desc(p) == pluginInfo(registry, p.typ, p.name)
Descriptors == {Desc(p) : p \in c}
ConfiguredKeys == {key(p) : p \in c}

IsCloser(p) == p.factory.closer
IsFinisher(p) == p.factory.finisher

AllRegistered == \A p \in c : ~registry[p].nil
HasUnregistered == \E p \in c : registry[p].nil
WithinCapacity == Cardinality(c) <= MaxPluginSize
StrongKeysConfigured ==
    \A p \in c : Range(registry[p].deps) \subseteq ConfiguredKeys

\* Dependency edges between the keys of configured plugins: K1 -> K2 when a
\* configured plugin with key K1 lists the configured key K2 (strongOnly: in
\* its DependsOn list; otherwise in either list).
Succ(strongOnly, K1) ==
    {K2 \in ConfiguredKeys :
        \E p \in c : /\ key(p) = K1
                     /\ \/ K2 \in Range(registry[p].deps)
                        \/ ~strongOnly /\ K2 \in Range(registry[p].flex)}

RECURSIVE ReachSet(_, _, _)
ReachSet(strongOnly, S, n) ==
    IF n = 0 THEN S
    ELSE ReachSet(strongOnly, S \cup UNION {Succ(strongOnly, K) : K \in S}, n - 1)

\* The keys reachable from K in one or more steps.
Reach(strongOnly, K) ==
    ReachSet(strongOnly, Succ(strongOnly, K), Cardinality(ConfiguredKeys))

Acyclic == \A K \in ConfiguredKeys : K \notin Reach(FALSE, K)

HasStrongCycle ==
    \E K1, K2 \in ConfiguredKeys :
        K1 # K2 /\ K2 \in Reach(TRUE, K1) /\ K1 \in Reach(TRUE, K2)

\* p lists its own key; p's own key is the first key the resolver evaluates.
OwnKey(p) == key(p) \in Range(registry[p].deps) \cup Range(registry[p].flex)
OwnKeyFirst(p) ==
    LET keys == registry[p].deps \o registry[p].flex IN
    keys # <<>> /\ keys[1] = key(p)

\* Every Setup call made so far was made with all keys of the plugin's
\* DependsOn list completed: status true, and a plugin with that key earlier
\* in the completed-order list.
StrongOrder ==
    \A k \in 1..Len(setupCalls) :
        \A T \in Range(setupCalls[k].factory.deps) :
            /\ T \in DOMAIN status
            /\ status[T]
            /\ \E j \in 1..(k - 1) :
                  key(setupCalls[j]) = T /\ j <= Len(result) /\ result[j] = setupCalls[j]

C1Pre == AllRegistered /\ StrongKeysConfigured /\ Acyclic

C1Succeeds ==
    /\ pc = "failed" => err.kind \in {"setup", "timeout", "OnFinish"}
    /\ StrongOrder

C2CloseReverse ==
    /\ closeCalls > 0 => pc = "done"
    /\ \A k \in 1..Len(closeLog) : closeLog[k].factory.closer
    /\ closeRet = "nil" =>
          /\ closeLog = Reverse(SelectSeq(result, IsCloser))
          /\ \A p \in c : registry[p].closer =>
                Cardinality({k \in 1..Len(closeLog) : closeLog[k] = Desc(p)}) = 1

C2Witness ==
    /\ closeRet = "nil"
    /\ Len(closeLog) = 2
    /\ closeLog = <<result[2], result[1]>>

NoCloseAtAll == close.nil /\ closeCalls = 0 /\ closeLog = <<>>

\* C3: with a strong-dependency cycle of two or more plugins the run does not
\* succeed: it never reaches onFinish, returns no close function and invokes
\* no Close (whatever the error it fails with).
C3CycleFails ==
    HasStrongCycle =>
        /\ pc \notin {"done", "finish"}
        /\ NoCloseAtAll

\* C4 as stated: a configured plugin that lists its own key makes the run fail
\* with the self-dependency error.
C4Original ==
    (\E p \in c : OwnKey(p)) =>
        /\ pc # "done"
        /\ pc = "failed" => err = SelfErr

\* C4 amended: such a plugin is never set up and the run never succeeds; it
\* fails with the self-dependency error or with another error that ended the
\* run earlier, which is the cycle error only when the own key is not the
\* first key the resolver evaluates.
C4Amended ==
    \A p \in c : OwnKey(p) =>
        /\ pc \notin {"done", "finish"}
        /\ Desc(p) \notin Range(setupCalls)
        /\ pc = "failed" =>
              /\ err.kind \in {"self", "lookup", "capacity", "missing", "setup",
                               "timeout", "cycle"}
              /\ OwnKeyFirst(p) => err.kind # "cycle"

C4Witness ==
    \E p \in c :
        /\ OwnKey(p)
        /\ ~OwnKeyFirst(p)
        /\ pc = "failed"
        /\ err = SelfErr
        /\ passes = 2
        /\ setupCalls # <<>>

\* C5 as stated: with an unregistered pair in the configuration the run fails
\* with the lookup error and no Setup is invoked.
C5Original ==
    HasUnregistered =>
        /\ setupCalls = <<>>
        /\ pc \in {"load", "failed"}
        /\ pc = "failed" => err.kind = "lookup"

\* C5 amended: the run fails and no Setup is invoked; the error is the lookup
\* error of an unregistered pair, or the capacity error, which takes more than
\* MaxPluginSize + 1 configured pairs.
C5Amended ==
    HasUnregistered =>
        /\ setupCalls = <<>>
        /\ pc \in {"load", "failed"}
        /\ pc = "failed" =>
              \/ \E p \in c : registry[p].nil /\ err = LookupErr(p.typ, p.name)
              \/ err = CapacityErr /\ Cardinality(c) > MaxPluginSize + 1

C5Witness ==
    /\ HasUnregistered
    /\ \E p \in c : ~registry[p].nil
    /\ Cardinality(c) = MaxPluginSize + 1
    /\ pc = "failed"
    /\ err.kind = "lookup"

\* C6: when the timer fires before a plugin's Setup returns, the run has failed
\* with the timeout error naming the plugin's key, the plugin's status is
\* false, and its Setup is the last one invoked in the run.
C6TimeoutAborts ==
    \A p \in DOMAIN abandoned :
        /\ pc = "failed"
        /\ err = TimeoutErr(p)
        /\ ~status[key(p)]
        /\ Last(setupCalls) = p

\* C7: SetupClosables returns a close function over the whole close list and a
\* nil error, or a nil close function (no close list) and one of the errors of
\* its failure paths; until it returns there is neither.
C7TwoOutcomes ==
    /\ pc = "done" => ~close.nil /\ close.closes = closes /\ err = NoErr
    /\ pc = "failed" =>
          /\ close.nil /\ close.closes = <<>>
          /\ err.kind \in {"lookup", "capacity", "self", "missing", "setup",
                           "timeout", "cycle", "OnFinish"}
    /\ pc \notin {"done", "failed"} => close.nil /\ err = NoErr

C7Witness ==
    /\ pc = "failed"
    /\ err.kind = "setup"
    /\ closes # <<>>

\* C8: no plugin's Setup is invoked twice, and in a successful run the Setup
\* of every configured plugin has been invoked.
C8SetupOnce ==
    /\ Distinct(setupCalls)
    /\ pc = "done" => Range(setupCalls) = Descriptors /\ Len(setupCalls) = Cardinality(c)

C8Witness ==
    /\ pc = "done"
    /\ passes = 2
    /\ Len(setupCalls) = 2
    /\ Cardinality(c) = 2

\* C9: OnFinish calls are made only once every configured plugin is set up,
\* only on FinishNotifiers, at most once each, in completion order.
C9FinishOrder ==
    finishCalls # <<>> =>
        /\ pc \in {"finish", "done", "failed"}
        /\ plugins = <<>>
        /\ Range(result) = Descriptors
        /\ \A p \in c : status[key(p)]
        /\ Distinct(finishCalls)
        /\ IsPrefix(finishCalls, SelectSeq(result, IsFinisher))

C9Witness ==
    /\ pc = "done"
    /\ Len(finishCalls) = 2
    /\ finishCalls = result

\* C10: when an OnFinish returned an error, that plugin's error is the run's
\* error, its OnFinish is the last one invoked, no close function is returned
\* and nothing is closed, all setups having succeeded.
C10FinishError ==
    err.kind = "OnFinish" =>
        /\ pc = "failed"
        /\ finishCalls # <<>>
        /\ err = PluginErr("OnFinish", Last(finishCalls))
        /\ NoCloseAtAll
        /\ Range(result) = Descriptors

C10Witness ==
    /\ err.kind = "OnFinish"
    /\ Len(finishCalls) = 1
    /\ Len(SelectSeq(result, IsFinisher)) = 2
    /\ closes # <<>>

\* C11: an invocation of the returned function that ended with an error
\* returned the error of the last Close it called; it called the Closes in
\* reverse completion order up to that one and no Close of a plugin that
\* completed setup earlier.  An invocation that has not failed carries no error.
C11CloseError ==
    /\ closeRet = "err" =>
          /\ closeLog # <<>>
          /\ closeErr = PluginErr("Close", Last(closeLog))
          /\ closeLog = SubSeq(Reverse(close.closes), 1, Len(closeLog))
          /\ \A k \in 1..(Len(close.closes) - Len(closeLog)) :
                close.closes[k] \notin Range(closeLog)
    /\ closeRet # "err" => closeErr = NoErr

C11Witness ==
    /\ closeRet = "err"
    /\ Len(close.closes) = 2
    /\ closeLog = <<close.closes[2]>>

\* p is registered and its FlexDependsOn list is not empty and holds only keys
\* that no configured plugin has.
AbsentWeakOnly(p) ==
    /\ ~registry[p].nil
    /\ registry[p].flex # <<>>
    /\ Range(registry[p].flex) \cap ConfiguredKeys = {}

\* The descriptor d with an empty FlexDependsOn list.
WithoutFlex(d) == [d EXCEPT !.factory.flex = <<>>]

\* C12: for a plugin whose weak dependencies are all on absent keys the
\* resolver answers, at every status map the run reaches, what it answers for the
\* same plugin without weak dependencies; such a plugin without strong
\* dependencies is not left waiting by any pass; and a configuration made of
\* such plugins and plugins without dependencies is set up in one pass and
\* fails only when a Setup or OnFinish fails or times out.
C12AbsentWeak ==
    /\ \A p \in c : AbsentWeakOnly(p) =>
          /\ pc # "load" =>
                hasDependence(Desc(p), status) = hasDependence(WithoutFlex(Desc(p)), status)
          /\ registry[p].deps = <<>> /\ passes >= 2 /\ pc \in {"setup", "insetup"} =>
                \A k \in 1..Len(plugins) : plugins[k] # Desc(p)
    /\ ( /\ AllRegistered /\ WithinCapacity
         /\ \A p \in c : /\ registry[p].deps = <<>>
                         /\ Range(registry[p].flex) \cap ConfiguredKeys = {} ) =>
          /\ passes <= 1
          /\ pc = "failed" => err.kind \in {"setup", "timeout", "OnFinish"}

C12Witness ==
    /\ pc = "done"
    /\ Cardinality(c) = 2
    /\ passes = 1
    /\ \E p \in c : /\ AbsentWeakOnly(p)
                    /\ registry[p].deps = <<>>
                    /\ Len(registry[p].flex) = 2
                    /\ result[1] = Desc(p)

MissingStrong(p) == ~(Range(registry[p].deps) \subseteq ConfiguredKeys)

\* C14: with a configured plugin that strongly depends on a key that is not
\* configured, the run never reaches onFinish nor success, returns no close
\* function, and that plugin's Setup is never invoked.
C14MissingStrong ==
    \A p \in c : MissingStrong(p) =>
        /\ pc \notin {"done", "finish"}
        /\ close.nil
        /\ finishCalls = <<>>
        /\ \A k \in 1..Len(setupCalls) : setupCalls[k] # Desc(p)

C14Witness ==
    /\ pc = "failed"
    /\ err.kind = "missing"
    /\ Len(setupCalls) = 2
    /\ \E p \in c : MissingStrong(p) /\ Len(registry[p].deps) = 2

\* C15: when a Setup call returned an error, the run has failed with the setup
\* error wrapping the key of that plugin, whose Setup is the last one invoked
\* and was invoked once, no close function is returned, and the plugin's
\* status is false.
C15SetupErrorAborts ==
    err.kind = "setup" =>
        /\ pc = "failed"
        /\ err = SetupErr(Last(setupCalls))
        /\ Distinct(setupCalls)
        /\ \A k \in 1..Len(result) : result[k] # Last(setupCalls)
        /\ close.nil
        /\ ~status[key(Last(setupCalls))]

\* C16: with an empty configuration SetupClosables only succeeds, with a close
\* function over an empty close list; no Setup, OnFinish or Close is ever
\* called, and every invocation of the close function returns nil.
C16EmptyConfig ==
    c = {} =>
        /\ pc \in {"load", "done"}
        /\ pc = "done" => ~close.nil /\ close.closes = <<>> /\ err = NoErr
        /\ setupCalls = <<>> /\ finishCalls = <<>> /\ closeLog = <<>>
        /\ closeRet \in {"none", "nil"}
        /\ closeErr = NoErr

C16Witness ==
    /\ c = {}
    /\ pc = "done"
    /\ closeCalls = MaxCloseCalls
    /\ closeRet = "nil"

\* C17: until SetupClosables has returned successfully no Close has been
\* called and the close function has not been invoked; every Close call
\* logged belongs to an invocation of the returned function.
C17CloseOnlyFromClose ==
    /\ pc # "done" => closeLog = <<>> /\ closeCalls = 0 /\ closeRet = "none"
    /\ closeLog # <<>> => closeCalls > 0 /\ closeRet \in {"run", "nil", "err"}

C17Witness ==
    /\ pc = "finish"
    /\ Len(closes) = 2
    /\ finishCalls # <<>>
    /\ closeLog = <<>>

\* loadPlugins has returned the working set and the status map.
Loaded == pc # "load" /\ err.kind \notin {"lookup", "capacity"}

\* C18: once loadPlugins has built the descriptors, two different configured
\* pairs have different keys and the status map has one entry per descriptor.
C18KeysDistinct ==
    Loaded =>
        /\ \A p, q \in c : p # q => key(p) # key(q)
        /\ Cardinality(DOMAIN status) = Cardinality(c)

\* C19: with all configured factories registered, loadPlugins ends with the
\* capacity error exactly when more than MaxPluginSize plugins are configured;
\* a run that failed with the capacity error invoked no Setup.
C19Capacity ==
    /\ AllRegistered /\ pc # "load" =>
          (err = CapacityErr <=> Cardinality(c) > MaxPluginSize)
    /\ err = CapacityErr => pc = "failed" /\ setupCalls = <<>> /\ status = <<>>

C19Witness ==
    /\ AllRegistered
    /\ Cardinality(c) = MaxPluginSize + 1
    /\ pc = "failed"
    /\ err = CapacityErr

\* The descriptors that are neither in the working set nor completed: in a run
\* that failed in the resolver or in setup, the one descriptor whose
\* examination returned the error.
Examined == {d \in Descriptors : d \notin Range(plugins) \cup Range(result)}
Offender == CHOOSE d \in Examined : TRUE

\* C20 as stated: an error attributable to one plugin carries that plugin's
\* key (for the lookup error, the pair written "type:name" is accepted as
\* naming it).
C20Original ==
    pc = "failed" =>
        /\ err.kind = "lookup" =>
              \E p \in c : registry[p].nil /\ err.arg \in {key(p), p.typ \o ":" \o p.name}
        /\ err.kind \in {"self", "missing", "setup", "timeout"} =>
              Cardinality(Examined) = 1 /\ err.arg = key(Offender)

\* C20 amended: the setup and timeout errors carry the key of the plugin whose
\* Setup failed or timed out; the lookup error carries the type and name of an
\* unregistered pair as "type:name"; the missing-dependency error carries the
\* missing key, which is a key of the offending plugin's DependsOn list and
\* not the plugin's own; the self-dependency error carries no identification.
C20Amended ==
    pc = "failed" =>
        /\ err.kind = "lookup" =>
              \E p \in c : registry[p].nil /\ err.arg = p.typ \o ":" \o p.name
        /\ err.kind \in {"self", "missing", "setup", "timeout"} =>
              Cardinality(Examined) = 1
        /\ err.kind \in {"setup", "timeout"} =>
              Offender = Last(setupCalls) /\ err.arg = key(Offender)
        /\ err.kind = "missing" =>
              /\ err.arg \in Range(Offender.factory.deps) \ ConfiguredKeys
              /\ err.arg # key(Offender)
        /\ err.kind = "self" =>
              /\ err.arg = ""
              /\ key(Offender) \in Range(Offender.factory.deps)
                                    \cup Range(Offender.factory.flex)

C20Witness ==
    /\ pc = "failed"
    /\ err = SelfErr
    /\ Cardinality(c) = 3
    /\ Len(setupCalls) = 1

\* C21: every Setup call made so far was made on the factory registered for a
\* configured pair, with that pair's name and a decoder over that pair's
\* configuration leaf, and no two Setup calls were given the same leaf.
C21OwnLeaf ==
    /\ \A k \in 1..Len(setupCalls) :
          LET d == setupCalls[k] IN
          /\ [typ |-> d.typ, name |-> d.name] \in c
          /\ d.factory = Get(registry, d.typ, d.name)
          /\ SetupArgs(d) = [name |-> d.name, node |-> Leaf(d.typ, d.name)]
    /\ \A j, k \in 1..Len(setupCalls) :
          j # k => SetupArgs(setupCalls[j]).node # SetupArgs(setupCalls[k]).node

C21Witness ==
    /\ Len(setupCalls) = 3
    /\ setupCalls[1].typ = setupCalls[2].typ
    /\ setupCalls[1].name = setupCalls[3].name

\* The steps of SetupClosables itself (not of its caller, nor of abandoned
\* Setup goroutines).
RunStep ==
    \/ LoadPlugins \/ SetupPluginsStep \/ SetupReturns \/ SetupFails
    \/ SetupTimesOut \/ OnFinish

Returned == pc \in {"done", "failed"}

\* Position of the run: passes started, then iterations done in the pass, then
\* whether a Setup call is in flight; onFinish comes after all passes.
PassWidth == 2 * (Cardinality(c) + 1)
Rank ==
    CASE pc = "load" -> 0
      [] pc = "setup" -> 1 + passes * PassWidth + 2 * i
      [] pc = "insetup" -> 2 + passes * PassWidth + 2 * i
      [] pc = "finish" -> (Cardinality(c) + 2) * PassWidth + fi
      [] OTHER -> (Cardinality(c) + 3) * PassWidth

\* C26: setupPlugins starts at most one pass per configured plugin, every pass
\* after the first starts on a working set that lost at least one descriptor
\* per earlier pass, the run is never stuck before it returns (a Setup call in
\* flight returns or times out), and every step of the run advances it.
C26Terminates ==
    /\ [](/\ passes <= Cardinality(c)
          /\ pc \in {"setup", "insetup"} =>
                /\ passes >= 1
                /\ num <= Cardinality(c) - (passes - 1)
                /\ i <= num
          /\ Returned \/ ENABLED RunStep)
    /\ [][~Returned => Rank' > Rank]_vars

C26Witness ==
    /\ Cardinality(c) = 3
    /\ passes = 3
    /\ pc = "done"

\* C27: an iteration of setupPlugins reports the cycle error exactly when it
\* re-queues the last descriptor of a pass (the working set keeps its length
\* in that iteration) and the working set then has the size num it had when
\* the pass started; the return of a Setup call never reports it.  A run that
\* failed with the cycle error stopped at the end of a pass, with the working
\* set as large as at its start, and no pass is left at its end otherwise.
C27CycleExactly ==
    /\ [](/\ err = CycleErr =>
                pc = "failed" /\ num >= 1 /\ i = num /\ Len(plugins) = num
          /\ pc = "setup" => i < num)
    /\ [][/\ pc = "setup" =>
                (err' = CycleErr <=>
                    /\ Len(plugins') = Len(plugins)
                    /\ i + 1 = num
                    /\ Len(plugins') = num)
          /\ pc = "insetup" => err' # CycleErr]_vars

C27Witness ==
    /\ err = CycleErr
    /\ passes = 2
    /\ Len(setupCalls) = 1
    /\ num = 2

\* p is on a dependency cycle of two or more keys that uses a weak edge: p
\* lists another configured key from which p's key is reachable again, the
\* edge being weak or the way back needing a weak edge.
OnWeakCycle(p) ==
    \E K2 \in ConfiguredKeys \ {key(p)} :
        /\ K2 \in Range(registry[p].deps) \cup Range(registry[p].flex)
        /\ key(p) \in Reach(FALSE, K2)
        /\ ~(K2 \in Range(registry[p].deps) /\ key(p) \in Reach(TRUE, K2))

\* C28: with a plugin on a dependency cycle that uses a weak edge, the run
\* does not succeed, returns no close function and calls no Close, and the
\* Setup of that plugin is not invoked (whatever the error the run fails with).
C28WeakCycleFails ==
    \A p \in c : OnWeakCycle(p) =>
        /\ pc \notin {"done", "finish"}
        /\ NoCloseAtAll
        /\ \A k \in 1..Len(setupCalls) : setupCalls[k] # Desc(p)

\* p's factory is a Depender and a FlexDepender with keys in both lists.
BothLists(p) == registry[p].deps # <<>> /\ registry[p].flex # <<>>

\* C29: at every status map the run reaches, the resolver answers "ready" for
\* a plugin with both lists only if every key of its DependsOn list and every
\* configured key of its FlexDependsOn list has status true.
C29ReadyBoth ==
    \A p \in c :
        BothLists(p) /\ pc # "load" /\ hasDependence(Desc(p), status) = Ready =>
            /\ \A K \in Range(registry[p].deps) : K \in DOMAIN status /\ status[K]
            /\ \A W \in Range(registry[p].flex) \cap ConfiguredKeys : status[W]

C29Witness ==
    /\ pc = "insetup"
    /\ cur.factory.deps # <<>>
    /\ cur.factory.flex # <<>>
    /\ cur.factory.deps[1] # cur.factory.flex[1]
    /\ cur.factory.flex[1] \in ConfiguredKeys
    /\ Len(result) = 2

\* C30: at every status map the run reaches, a plugin whose DependsOn list
\* makes checkDependence answer "wait" gets "wait" from the resolver, whatever
\* its FlexDependsOn list holds; and a run that failed with the
\* self-dependency error failed on a plugin whose DependsOn list did not wait.
C30StrongWaitFirst ==
    /\ \A p \in c :
          /\ pc # "load"
          /\ checkDependence(Desc(p), status, registry[p].deps, FALSE) = Wait
          => hasDependence(Desc(p), status) = Wait
    /\ pc = "failed" /\ err = SelfErr =>
          checkDependence(Offender, status, Offender.factory.deps, FALSE) # Wait

\* The first descriptor examined was put back at the end of the working set:
\* its DependsOn list waits and its FlexDependsOn list holds its own key.
C30Witness ==
    /\ pc = "setup"
    /\ i = 1
    /\ Len(plugins) = num
    /\ Last(plugins).factory.flex = <<key(Last(plugins))>>
    /\ checkDependence(Last(plugins), status, Last(plugins).factory.deps, FALSE) = Wait

\* ------------------------------------------------------------ C22, C23
\* No goroutine is inside Register.
RegQuiet == \A g \in RegGoroutines : regG[g].pc = "idle"

\* The Register calls of the log made under the name with a factory of the type.
RegisteredAt(log, typ, name) ==
    {k \in 1..Len(log) : log[k].f.typ = typ /\ log[k].name = name}

\* The factory of the last of these calls, the nil Factory without one.
lastRegistered(log, typ, name) ==
    IF RegisteredAt(log, typ, name) = {} THEN NoFactory
    ELSE log[CHOOSE k \in RegisteredAt(log, typ, name) :
                 \A j \in RegisteredAt(log, typ, name) : j <= k].f

\* C22: after any sequence of Register calls (each returned before the next
\* began, no Get run beside them), Get(typ, name) returns the factory most
\* recently registered under the name among the factories whose Type() is
\* typ, and nil when there was no such registration, also when the name was
\* registered under another type only.
C22LastRegistered ==
    ~regOverlap =>
        /\ ~regFatal
        /\ RegQuiet =>
             \A typ \in Types, name \in Names :
                 Get(pluginsOf(regTable, regHeap), typ, name) = lastRegistered(regLog, typ, name)

\* Two calls in sequence under one name and type with different factories,
\* after which the name is still missing under the other type.
C22Witness ==
    /\ ~regOverlap /\ RegQuiet /\ Len(regLog) = 2
    /\ regLog[1].name = regLog[2].name
    /\ regLog[1].f.typ = regLog[2].f.typ
    /\ regLog[1].f # regLog[2].f
    /\ Get(pluginsOf(regTable, regHeap), regLog[2].f.typ, regLog[2].name) = regLog[2].f
    /\ \E typ \in Types : Get(pluginsOf(regTable, regHeap), typ, regLog[2].name) = NoFactory

\* C23: the registry is thread-safe: concurrent Register and Get calls never
\* break the table (the runtime never throws on it), and once the calls have
\* returned the table holds, for every type and name that was registered, one
\* of the factories registered under them, and nil for the others.
C23ThreadSafe ==
    /\ ~regFatal
    /\ RegQuiet =>
         \A typ \in Types, name \in Names :
             IF RegisteredAt(regLog, typ, name) = {}
             THEN Get(pluginsOf(regTable, regHeap), typ, name) = NoFactory
             ELSE \E k \in RegisteredAt(regLog, typ, name) :
                      Get(pluginsOf(regTable, regHeap), typ, name) = regLog[k].f

\* ------------------------------------------------------------------ C24
\* C24: log.Register panics and leaves the logger table (and DefaultLogger)
\* unchanged when the logger is nil or when the name is already registered
\* and is not the default name; registering a logger under the default name
\* again returns, overwrites that entry only and replaces DefaultLogger.
C24RegisterPanics ==
    [][/\ (\/ logCall'.logger = NilLogger
           \/ logCall'.name \in DOMAIN loggers /\ logCall'.name # defaultLoggerName) =>
              /\ logCall'.panic # "none"
              /\ loggers' = loggers
              /\ DefaultLogger' = DefaultLogger
       /\ (logCall'.logger # NilLogger /\ logCall'.name = defaultLoggerName) =>
              /\ logCall'.panic = "none"
              /\ loggers' = setLogger(loggers, defaultLoggerName, logCall'.logger)
              /\ DefaultLogger' = logCall'.logger]_vars

\* A duplicate registration of a name other than the default with another
\* logger has panicked, after the default logger had been replaced.
C24Witness ==
    /\ logCall.panic = "log: Register called twiced for logger name"
    /\ logCall.name \in DOMAIN loggers
    /\ loggers[logCall.name] # logCall.logger
    /\ DefaultLogger # "zap"
    /\ loggers[defaultLoggerName] = DefaultLogger

\* ------------------------------------------------------------------ C25
\* C25: database.Init initializes the client at most once: over any calls,
\* in sequence or concurrent, newClient runs exactly once (never twice, and
\* once before any call gets past once.Do), every call returns the result of
\* that run, and a failed first initialization is not retried: the run
\* record, clientInstance and initErr stay as the run left them.
C25InitOnce ==
    /\ Len(dbRuns) <= 1
    /\ \A g \in DbGoroutines :
         /\ (dbG[g].pc = "check" \/ dbG[g].returned) => Len(dbRuns) = 1
         /\ dbG[g].returned =>
              /\ dbG[g].client = dbRuns[1].client
              /\ dbG[g].err = dbRuns[1].err
    /\ Len(dbRuns) = 1 =>
         /\ once = "done"
         /\ clientInstance = dbRuns[1].client
         /\ initErr = dbRuns[1].err

\* The first initialization failed; a goroutine that called Init again, with
\* another configuration than the one of the run, has that error back, and
\* so has a second goroutine.
C25Witness ==
    /\ Len(dbRuns) = 1 /\ dbRuns[1].err = OpenErr
    /\ \E g, h \in DbGoroutines :
         /\ g # h
         /\ dbG[g].returned /\ dbG[g].pc = "idle" /\ dbG[g].err = OpenErr
         /\ dbG[h].returned /\ dbG[h].pc = "idle" /\ dbG[h].err = OpenErr
         /\ dbG[g].cfg # dbG[h].cfg

\* ------------------------------------------------------------------ C31
\* C31: once the status map is built, the entry of a configured plugin's key
\* is true exactly when that plugin's Setup returned success and the plugin
\* is in the completed-order list; the entries of plugins that failed, timed
\* out or are still waiting are false.
C31StatusMap ==
    Loaded =>
        \A p \in c :
            /\ status[key(p)] <=>
                  /\ Desc(p) \in Range(result)
                  /\ Desc(p) \in Range(setupCalls)
            /\ Desc(p) \in Range(plugins) \/ Desc(p) = cur \/ Desc(p) \in DOMAIN abandoned
                  => ~status[key(p)]

\* ------------------------------------------------------------------ C32
\* C32: after a setup timeout the run has returned the timeout error and no
\* close function; the later completion of the abandoned Setup call, with
\* success or with an error, changes neither the status map, the
\* completed-order list, the close list, the working set nor what the run
\* returned; and the abandoned goroutine can always finish (close(ch) waits
\* for no receiver).
C32Discarded ==
    /\ [](/\ DOMAIN abandoned # {} =>
                pc = "failed" /\ err.kind = "timeout" /\ close.nil
          /\ (\E p \in DOMAIN abandoned : abandoned[p] = "running") =>
                ENABLED AbandonedSetupReturns)
    /\ [][(\E p \in DOMAIN abandoned : abandoned[p] = "running" /\ abandoned'[p] # "running") =>
             UNCHANGED <<status, result, closes, plugins, close, err, pc>>]_vars

\* An abandoned Setup call has returned success after the run failed with its
\* timeout, another plugin having been set up before.
C32Witness ==
    \E p \in DOMAIN abandoned :
        /\ abandoned[p] = "nil"
        /\ err = TimeoutErr(p)
        /\ result # <<>>
        /\ p \notin Range(result)
        /\ asCloser(p)

RECURSIVE passOf(_, _, _, _)
passOf(q, st, res, n) ==
    IF n = 0 THEN [q |-> q, st |-> st, res |-> res, stop |-> FALSE]
    ELSE LET r == hasDependence(Head(q), st) IN
         IF r.err # NoErr THEN [q |-> Tail(q), st |-> st, res |-> res, stop |-> TRUE]
         ELSE IF r.wait THEN passOf(Append(Tail(q), Head(q)), st, res, n - 1)
         ELSE passOf(Tail(q), [st EXCEPT ![key(Head(q))] = TRUE],
                     Append(res, Head(q)), n - 1)

\* The completed-order list setupPlugins builds from the working set q when
\* every Setup returns nil, up to the resolver error or the cycle error that
\* stops it.
RECURSIVE completionOf(_, _, _)
completionOf(q, st, res) ==
    IF Len(q) = 0 THEN res
    ELSE LET r == passOf(q, st, res, Len(q)) IN
         IF r.stop \/ Len(r.q) = Len(q) THEN r.res
         ELSE completionOf(r.q, r.st, r.res)

\* The same from the working set and status map loadPlugins returns.
completion(q) ==
    completionOf(q, [k \in {key(q[j]) : j \in 1..Len(q)} |-> FALSE], <<>>)

\* C34: the completed-order list is a function of the initial order of the
\* working set and of the dependency lists of its descriptors: whatever the
\* run's Setup calls, timers and abandoned goroutines do, the list is at
\* every moment a prefix of that function's value, and the whole of it once
\* setupPlugins has returned it; the OnFinish calls follow it and an
\* invocation of the close function that returned nil followed its reverse.
C34Deterministic ==
    Loaded =>
        LET list == completion(queued) IN
        /\ IsPrefix(result, list)
        /\ pc \in {"finish", "done"} \/ err.kind = "OnFinish" => result = list
        /\ IsPrefix(finishCalls, SelectSeq(list, IsFinisher))
        /\ closeRet = "nil" => closeLog = Reverse(SelectSeq(list, IsCloser))

\* Three plugins completed in another order than they were queued in.
C34Witness ==
    /\ pc = "done"
    /\ Len(queued) = 3
    /\ result = <<queued[3], queued[2], queued[1]>>
    /\ closeRet = "nil"
    /\ closeLog # <<>>

\* ------------------------------------------------------------------ C35
\* The keys of the plugins in the completed-order list.
CompletedKeys == {key(result[k]) : k \in 1..Len(result)}

\* Every dependency of the descriptor has completed: the keys of its
\* DependsOn list and the configured keys of its FlexDependsOn list are keys
\* of completed plugins, and it does not list its own key.
DepsCompleted(p) ==
    /\ Range(p.factory.deps) \subseteq CompletedKeys
    /\ Range(p.factory.flex) \cap ConfiguredKeys \subseteq CompletedKeys
    /\ key(p) \notin Range(p.factory.deps) \cup Range(p.factory.flex)

\* C35: the status map is up to date within the pass: an iteration that
\* receives a descriptor whose dependencies have all completed, in an earlier
\* pass or earlier in this one, starts its Setup in that iteration and does
\* not put it back for the next pass; and the entry of a plugin is true from
\* the step in which its Setup returned.
C35SamePass ==
    /\ [][pc = "setup" /\ DepsCompleted(Head(plugins)) =>
             /\ pc' = "insetup"
             /\ cur' = Head(plugins)
             /\ passes' = passes]_vars
    /\ [](Loaded => \A k \in 1..Len(result) : status[key(result[k])])

\* In the first pass the Setup of a plugin is running whose only dependency
\* completed earlier in that pass.
C35Witness ==
    /\ pc = "insetup"
    /\ passes = 1
    /\ Len(result) = 1
    /\ cur.factory.deps = <<key(result[1])>>
    /\ key(cur) # key(result[1])

\* ------------------------------------------------------------------ C36
\* C36: between the iterations of setupPlugins, so at every pass boundary,
\* the working set and the completed-order list together hold every
\* configured descriptor exactly once (with the descriptor whose Setup is
\* running while a call is in flight), also when the run stops on the cycle
\* error; the working set is empty when setupPlugins has returned the list;
\* and it never holds more than MaxPluginSize descriptors, so that the
\* iteration that puts a descriptor back has just made room for it.
C36Conservation ==
    /\ pc = "setup" \/ err = CycleErr =>
          /\ Len(plugins) + Len(result) = Cardinality(c)
          /\ Range(plugins) \cup Range(result) = Descriptors
          /\ Distinct(plugins \o result)
    /\ pc = "setup" => plugins # <<>> /\ Len(Tail(plugins)) < MaxPluginSize
    /\ pc = "insetup" =>
          /\ Len(plugins) + Len(result) + 1 = Cardinality(c)
          /\ Range(plugins) \cup Range(result) \cup {cur} = Descriptors
          /\ Distinct(plugins \o result \o <<cur>>)
    /\ pc \in {"finish", "done"} =>
          /\ plugins = <<>>
          /\ Len(result) = Cardinality(c)
          /\ Range(result) = Descriptors
    /\ Len(plugins) <= MaxPluginSize
    /\ Len(queued) <= MaxPluginSize

\* A second pass begins on two descriptors that waited, with a working set
\* that was full when it was loaded.
C36Witness ==
    /\ pc = "setup"
    /\ passes = 2
    /\ i = 0
    /\ Len(plugins) = 2
    /\ Len(result) = 1
    /\ Len(queued) = MaxPluginSize

\* ------------------------------------------------------------------ C37
\* C37: the status map loadPlugins returns has an entry for the key of every
\* configured plugin and for no other key, all of them false before the
\* first resolver call; so whenever the resolver is asked it never answers
\* the missing-dependency error for a configured key, wherever its plugin is
\* in the working set, and a run that failed with that error names a key
\* that is not configured.
C37StatusComplete ==
    Loaded =>
        /\ DOMAIN status = ConfiguredKeys
        /\ setupCalls = <<>> => \A K \in DOMAIN status : ~status[K]
        /\ pc = "setup" =>
              \A p \in c :
                  LET r == checkDependence(Desc(p), status, registry[p].deps, FALSE) IN
                  r.err.kind = "missing" => r.err.arg \notin ConfiguredKeys
        /\ err.kind = "missing" => err.arg \notin ConfiguredKeys

\* The first descriptor received depends strongly on the plugin behind it in
\* the working set and was put back.
C37Witness ==
    /\ pc = "setup"
    /\ passes = 1
    /\ i = 1
    /\ Len(plugins) = num
    /\ num >= 2
    /\ Last(plugins).factory.deps = <<key(Head(plugins))>>
    /\ key(Last(plugins)) # key(Head(plugins))

\* ------------------------------------------------------------------ C38
\* C38: a run that returned an error after plugins had completed their setup
\* has called Close on none of them, has returned no close function, and its
\* caller cannot invoke one.
C38NoCloseOnError ==
    pc = "failed" /\ result # <<>> =>
        /\ close.nil /\ close.closes = <<>>
        /\ closeCalls = 0 /\ closeLog = <<>> /\ closeRet = "none"
        /\ ~ENABLED CloseCall

\* Two Closers were set up before the Setup of a third plugin timed out.
C38Witness ==
    /\ pc = "failed"
    /\ err.kind = "timeout"
    /\ Len(result) = 2
    /\ Len(closes) = 2

\* ------------------------------------------------------------------ C39
\* The key decides the answer of checkDependence: it is the plugin's own key,
\* a missing key of a strong list, or the key of a plugin not yet set up.
Decisive(p, st, name, flexible) ==
    \/ name = key(p)
    \/ name \notin DOMAIN st /\ ~flexible
    \/ name \in DOMAIN st /\ ~st[name]

\* What a decisive key makes checkDependence answer.
DecisiveAnswer(p, st, name) ==
    IF name = key(p) THEN Fail(SelfErr)
    ELSE IF name \notin DOMAIN st THEN Fail(MissingErr(name))
    ELSE Wait

\* The answer of the first decisive key of the list, "ready" without one.
FirstDecisive(p, st, dependences, flexible) ==
    LET D == {k \in 1..Len(dependences) : Decisive(p, st, dependences[k], flexible)} IN
    IF D = {} THEN Ready ELSE DecisiveAnswer(p, st, dependences[Min(D)])

\* The keys the list holds before the first occurrence of name.
Before(dependences, name) ==
    {dependences[k] : k \in {j \in 1..Len(dependences) :
                                \A h \in 1..j : dependences[h] # name}}

\* C39: whenever the resolver is asked, checkDependence answers what
\* the first decisive key of the list, in declared order, stands for; so a
\* pending configured key yields "wait" whatever follows it, and a run that
\* failed with the missing-dependency or the self-dependency error failed on
\* a plugin for which every key evaluated before the offending one had
\* completed its setup (or, in a weak list, was not configured).
C39FirstDecisive ==
    Loaded =>
        /\ pc = "setup" => \A p \in c :
              /\ checkDependence(Desc(p), status, registry[p].deps, FALSE)
                    = FirstDecisive(Desc(p), status, registry[p].deps, FALSE)
              /\ checkDependence(Desc(p), status, registry[p].flex, TRUE)
                    = FirstDecisive(Desc(p), status, registry[p].flex, TRUE)
              /\ ( /\ registry[p].deps # <<>>
                   /\ registry[p].deps[1] \in ConfiguredKeys \ {key(p)}
                   /\ ~status[registry[p].deps[1]] ) =>
                    hasDependence(Desc(p), status) = Wait
        /\ pc = "failed" /\ err.kind = "missing" =>
              \A K \in Before(Offender.factory.deps, err.arg) : K \in DOMAIN status /\ status[K]
        /\ pc = "failed" /\ err = SelfErr =>
              IF key(Offender) \in Range(Offender.factory.deps)
              THEN \A K \in Before(Offender.factory.deps, key(Offender)) :
                       K \in DOMAIN status /\ status[K]
              ELSE /\ \A K \in Range(Offender.factory.deps) : K \in DOMAIN status /\ status[K]
                   /\ \A K \in Before(Offender.factory.flex, key(Offender)) \cap DOMAIN status :
                         status[K]

\* A plugin lists a configured key before a missing one: it waited in the
\* first pass, and the missing-dependency error came in the second, after
\* the Setup of the plugin of the first key.
C39Witness ==
    /\ pc = "failed"
    /\ err.kind = "missing"
    /\ passes = 2
    /\ Len(Offender.factory.deps) = 2
    /\ Offender.factory.deps[1] \in ConfiguredKeys
    /\ status[Offender.factory.deps[1]]
    /\ Offender.factory.deps[2] = err.arg
    /\ setupCalls # <<>>

\* ------------------------------------------------------------------ C40
\* C40: every invocation of the returned function, the first and the later
\* ones, whatever the earlier ones returned, calls the Closes of the whole
\* close list from the last-completed plugin on: what it has called so far
\* is the beginning of the reversed close list, the whole of it when it
\* returned nil, up to the Close that failed when it returned an error.
C40Stateless ==
    closeCalls >= 1 =>
        /\ closeLog = SubSeq(Reverse(close.closes), 1, Len(closeLog))
        /\ closeRet = "nil" => closeLog = Reverse(close.closes)
        /\ closeRet = "run" => Len(closeLog) = Len(close.closes) - ci
        /\ closeRet = "err" =>
              /\ Len(closeLog) = Len(close.closes) - ci + 1
              /\ ENABLED CloseCall <=> closeCalls < MaxCloseCalls

\* The second invocation has called both Closes again and returned nil.
C40Witness ==
    /\ closeCalls = 2
    /\ closeRet = "nil"
    /\ Len(close.closes) = 2
    /\ closeLog = <<close.closes[2], close.closes[1]>>

====
